---- MODULE Spec2Model ----
(***************************************************************************)
(* Model of the demo checkout service: src/src/lambda_handler.py (the      *)
(* scenario catalog, the invocation counter, the fault engine and the      *)
(* Lambda handler) and src/src/error_injector.py (the additional error     *)
(* injectors and the cumulative thresholds).                               *)
(*                                                                         *)
(* Probabilities are held in hundredths: the rate 0.05 is 5, and a roll r  *)
(* stands for the draw r/100 of random.random().  Comparisons are made on  *)
(* the exact sums; the last-bit rounding of the binary floating-point sums *)
(* (0.05 + 0.10 = 0.15000000000000002) is below this resolution.           *)
(***************************************************************************)
EXTENDS Integers, Sequences, FiniteSets, TLC

VARIABLES
    FAULT_SCENARIOS,  \* FaultInjector.FAULT_SCENARIOS, a mutable class attribute
    env,              \* os.environ["FAULT_SCENARIO"]: <<>> unset, <<name>> set
    count_file,       \* /tmp/invocation_count.txt: [exists, text]
    fault_config,     \* the configuration the last get_fault_config returned
    result,           \* what the last simulate_database_query did
    response,         \* what the last handler invocation returned
    store_mode,       \* whether reads and writes of the counter file work
    last,             \* history: the inputs of the last evaluation
    leak_evals,       \* history: memory_leak evaluations so far
    pc,               \* concurrent invocations: where each one is
    local_count       \* concurrent invocations: each one's local count

vars == <<FAULT_SCENARIOS, env, count_file, fault_config, result, response,
          store_mode, last, leak_evals, pc, local_count>>

\* the state of the concurrent invocations, unused by a sequential run
threads == <<pc, local_count>>

(***************************************************************************)
(* Bounds of the model.                                                    *)
(***************************************************************************)
\* memory_leak evaluations in one run (caps the invocation counter)
MaxLeakEvals == 3
\* rolls tried per handler invocation, spread evenly over [0, 1)
NumRolls == 10
\* values tried for each random.randint(lo, hi): lo, ..., hi evenly spread
NumRand == 3
\* handler invocations running concurrently in one process
NumProcs == 2
\* the largest invocation count the degradation is computed for
MaxCount == 600

Procs == 1..NumProcs

Rolls == {(k * 100) \div NumRolls : k \in 0..(NumRolls - 1)}

RandInt(lo, hi, u) == lo + ((hi - lo) * u) \div (NumRand - 1)

(***************************************************************************)
(* Python values.                                                          *)
(***************************************************************************)
\* dict.get(key, default)
Get(d, key, default) == IF key \in DOMAIN d THEN d[key] ELSE default

\* d[key] = value on a dict
SetItem(d, key, value) ==
    [k \in (DOMAIN d) \cup {key} |-> IF k = key THEN value ELSE d[k]]

\* str(n) for n >= 0, as the sequence of its decimal digits
RECURSIVE Str(_)
Str(n) == IF n < 10 THEN <<n>> ELSE Append(Str(n \div 10), n % 10)

\* int(text) succeeds: a non-empty string of digits
IsInt(text) == Len(text) > 0 /\ \A i \in 1..Len(text) : text[i] \in 0..9

\* int(text) for a string of digits
RECURSIVE ParseInt(_)
ParseInt(text) ==
    IF Len(text) = 0 THEN 0
    ELSE 10 * ParseInt(SubSeq(text, 1, Len(text) - 1)) + text[Len(text)]

\* The base classes of the built-in exceptions that occur, nearest first.
Bases(cls) ==
    CASE cls = "TimeoutError" -> <<"TimeoutError", "OSError", "Exception">>
      [] cls = "ValueError"   -> <<"ValueError", "Exception">>
      [] cls = "MemoryError"  -> <<"MemoryError", "Exception">>
      [] cls = "KeyError"     -> <<"KeyError", "LookupError", "Exception">>
      [] cls = "Exception"    -> <<"Exception">>
      [] OTHER                -> <<>>

\* an exception of class cls is caught by "except handler_cls"
Catches(handler_cls, cls) == \E i \in 1..Len(Bases(cls)) : Bases(cls)[i] = handler_cls

(***************************************************************************)
(* FaultInjector: the scenario catalog.                                    *)
(***************************************************************************)
\* An entry whose exception rate is typed 0.10 too high.
Entry_mistyped(t, s, e, pool, calls, dur, tmo) ==
    [db_timeout_rate |-> t, slow_query_rate |-> s, exception_rate |-> e + 10,
     db_pool_size |-> pool, concurrent_calls |-> calls,
     query_duration_ms |-> dur, timeout_ms |-> tmo]

Entry(t, s, e, pool, calls, dur, tmo) ==
    [db_timeout_rate |-> t, slow_query_rate |-> s, exception_rate |-> e,
     db_pool_size |-> pool, concurrent_calls |-> calls,
     query_duration_ms |-> dur, timeout_ms |-> tmo]

CatalogNames ==
    {"normal", "db_pool_exhaustion", "deployment_config_bug", "memory_leak",
     "cascading_failure"}

InitialScenarios ==
    [n \in CatalogNames |->
        CASE n = "normal" -> Entry(5, 10, 5, 10, 1, 150, 5000)
          [] n = "db_pool_exhaustion" -> Entry(50, 30, 0, 3, 5, 150, 5000)
          [] n = "deployment_config_bug" ->
                SetItem(Entry(40, 40, 10, 5, 8, 2000, 3000),
                        "deployment_time_offset_mins", 15)
          [] n = "memory_leak" -> Entry(10, 20, 15, 10, 1, 300, 5000)
          [] n = "cascading_failure" -> Entry(70, 20, 10, 2, 10, 500, 2000)]

\* os.getenv("FAULT_SCENARIO", "normal")
get_active_scenario(e) == IF e = <<>> THEN "normal" ELSE e[1]

\* The counts c below 500 for which the double 100 * (c / 100) lies just
\* below c, so that int() gives c - 1.
FloorsBelow ==
    {29, 57, 58, 113, 114, 115, 116, 201, 203, 205, 207, 226, 228, 230, 232,
     251, 253, 255, 402, 406, 410, 414, 427, 431, 435, 439, 452, 456, 460,
     464, 477, 481, 485, 489}

\* The latency without the cap min(..., 5.0) on the degradation factor.
AdditionalLatencyMs_uncapped(invocation_count) ==
    IF invocation_count \in FloorsBelow THEN invocation_count - 1
    ELSE invocation_count

\* int(100 * min(invocation_count / 100, 5.0))
AdditionalLatencyMs(invocation_count) ==
    IF invocation_count >= 500 THEN 500
    ELSE IF invocation_count \in FloorsBelow THEN invocation_count - 1
    ELSE invocation_count

\* How the write of the counter file ends: written, open() fails (the file
\* is left as it was), or open() has truncated it and write() fails.
WriteModes == {"ok", "open_fails", "write_fails"}

\* The counter writing the count it read, before the increment.
get_invocation_count_stale(file, read_ok, wr) ==
    LET stored == IF file.exists /\ read_ok /\ IsInt(file.text)
                  THEN ParseInt(file.text) ELSE 0
    IN [count |-> stored + 1,
        file  |-> CASE wr = "ok" -> [exists |-> TRUE, text |-> Str(stored)]
                    [] wr = "write_fails" -> [exists |-> TRUE, text |-> <<>>]
                    [] OTHER -> file]

\* The counter giving 0, without the increment, when the read fails.
get_invocation_count_zero(file, read_ok, wr) ==
    LET failed == file.exists /\ ~(read_ok /\ IsInt(file.text))
        count == IF failed THEN 0
                 ELSE IF file.exists THEN ParseInt(file.text) + 1 ELSE 1
    IN [count |-> count,
        file  |-> CASE wr = "ok" -> [exists |-> TRUE, text |-> Str(count)]
                    [] wr = "write_fails" -> [exists |-> TRUE, text |-> <<>>]
                    [] OTHER -> file]

\* FaultInjector._get_invocation_count: the count returned and the file left.
\* read_ok = FALSE: open() or read() raises.
get_invocation_count(file, read_ok, wr) ==
    LET stored == IF file.exists /\ read_ok /\ IsInt(file.text)
                  THEN ParseInt(file.text) ELSE 0
        count == stored + 1
    IN [count |-> count,
        file  |-> CASE wr = "ok" -> [exists |-> TRUE, text |-> Str(count)]
                    [] wr = "write_fails" -> [exists |-> TRUE, text |-> <<>>]
                    [] OTHER -> file]

\* FAULT_SCENARIOS[scenario], without the fallback.
ConfigKey_nofallback(table, scenario) == scenario

\* The entry FAULT_SCENARIOS.get(scenario, FAULT_SCENARIOS["normal"]) names.
ConfigKey(table, scenario) == IF scenario \in DOMAIN table THEN scenario ELSE "normal"

\* get_fault_config on a table whose entries are one shared dict: the
\* additional latency lands in every entry.
get_fault_config_shared(table, e, file, read_ok, wr) ==
    LET scenario == get_active_scenario(e)
        key == ConfigKey(table, scenario)
    IN IF scenario = "memory_leak"
       THEN LET ic == get_invocation_count(file, read_ok, wr)
                shared == [n \in DOMAIN table |->
                            SetItem(table[n], "additional_latency_ms",
                                    AdditionalLatencyMs(ic.count))]
            IN [raised |-> "None", config |-> shared[key], table |-> shared,
                file |-> ic.file, count |-> ic.count]
       ELSE [raised |-> "None", config |-> table[key], table |-> table,
             file |-> file, count |-> 0]

\* FaultInjector.get_fault_config.  config is the table's own dict, not a
\* copy: the assignment to config["additional_latency_ms"] lands in the table.
get_fault_config(table, e, file, read_ok, wr) ==
    LET scenario == get_active_scenario(e)
        key == ConfigKey(table, scenario)
    IN IF "normal" \notin DOMAIN table \/ key \notin DOMAIN table
       THEN [raised |-> "KeyError", config |-> << >>, table |-> table,
             file |-> file, count |-> 0]
       ELSE IF scenario = "memory_leak"
       THEN LET ic == get_invocation_count(file, read_ok, wr)
                config == SetItem(table[key], "additional_latency_ms",
                                  AdditionalLatencyMs(ic.count))
            IN [raised |-> "None", config |-> config,
                table |-> [table EXCEPT ![key] = config],
                file |-> ic.file, count |-> ic.count]
       ELSE [raised |-> "None", config |-> table[key], table |-> table,
             file |-> file, count |-> 0]

(***************************************************************************)
(* simulate_database_query: the fault engine of the handler.               *)
(***************************************************************************)
\* The chain with "<=" for "<" in its comparisons.
FaultClass_inclusive(fc, fault_roll) ==
    IF fault_roll <= Get(fc, "db_timeout_rate", 0) THEN "Timeout"
    ELSE IF fault_roll <= Get(fc, "db_timeout_rate", 0) + Get(fc, "slow_query_rate", 0)
    THEN "SlowQuery"
    ELSE IF fault_roll <= Get(fc, "db_timeout_rate", 0) + Get(fc, "slow_query_rate", 0)
                          + Get(fc, "exception_rate", 0)
    THEN "UnhandledException"
    ELSE "Success"

\* The branch of the if/elif chain that fault_roll takes.
FaultClass(fc, fault_roll) ==
    IF fault_roll < Get(fc, "db_timeout_rate", 0) THEN "Timeout"
    ELSE IF fault_roll < Get(fc, "db_timeout_rate", 0) + Get(fc, "slow_query_rate", 0)
    THEN "SlowQuery"
    ELSE IF fault_roll < Get(fc, "db_timeout_rate", 0) + Get(fc, "slow_query_rate", 0)
                         + Get(fc, "exception_rate", 0)
    THEN "UnhandledException"
    ELSE "Success"

NoResult ==
    [kind |-> "None", raised |-> "None", returned |-> FALSE, duration_ms |-> 0,
     logged_ms |-> 0, slept_ms |-> 0, wait_time_ms |-> 0, pool_available |-> 0,
     minutes_since_deployment |-> 0, level |-> "None", latency_spike |-> FALSE,
     base_ms |-> 0, additional_ms |-> 0,
     possibly_deployment_related |-> FALSE, log_msg |-> "None"]

\* The branches of the chain: the exception raised or the value returned,
\* the milliseconds slept and logged, the fields of the log record.  u picks
\* the value of the branch's random.randint.

\* The deployment fields attached whatever the configuration holds.
deployment_info_always(fc) ==
    [possibly_deployment_related |-> TRUE,
     minutes_since_deployment |-> Get(fc, "deployment_time_offset_mins", 0)]

\* deployment_info: the fields are there when
\* fault_config.get("deployment_time_offset_mins") is truthy, a number
\* other than 0; recent_deployment_time is the clock's reading less the
\* offset and is not held
deployment_info(fc) ==
    IF Get(fc, "deployment_time_offset_mins", 0) # 0
    THEN [possibly_deployment_related |-> TRUE,
          minutes_since_deployment |-> fc["deployment_time_offset_mins"]]
    ELSE [possibly_deployment_related |-> FALSE, minutes_since_deployment |-> 0]

\* The wait reported as the drawn duration whatever the pool's load.
actual_wait_time_drawn(fc, query_duration) == query_duration

\* timeout_threshold if concurrent_calls > db_pool_size else query_duration
actual_wait_time(fc, query_duration) ==
    IF Get(fc, "concurrent_calls", 1) > Get(fc, "db_pool_size", 10)
    THEN Get(fc, "timeout_ms", 5000) ELSE query_duration

\* "Inject database timeout": the second randint is the one kept; nothing
\* is slept
TimeoutBranch(fc, u) ==
    LET db_pool_size == Get(fc, "db_pool_size", 10)
        concurrent_calls == Get(fc, "concurrent_calls", 1)
        query_duration == RandInt(4500, 5500, u)
        info == deployment_info(fc)
    IN [NoResult EXCEPT !.kind = "Timeout", !.raised = "TimeoutError",
            !.logged_ms = query_duration,
            !.wait_time_ms = actual_wait_time(fc, query_duration),
            !.pool_available = db_pool_size - concurrent_calls,
            !.possibly_deployment_related = info.possibly_deployment_related,
            !.minutes_since_deployment = info.minutes_since_deployment,
            !.level = "error",
            !.log_msg = "Database connection timeout - pool exhausted"]

\* The slow query raising, as the failures do, instead of returning.
SlowQueryBranch_raises(fc, u) ==
    [NoResult EXCEPT !.kind = "SlowQuery", !.raised = "Exception",
            !.level = "warning"]

\* The spike taken only above 2000 ms.
is_latency_spike_above(query_duration) == query_duration > 2000

\* is_latency_spike = query_duration >= 2000
is_latency_spike(query_duration) == query_duration >= 2000

\* The slow query sleeping and logging the drawn duration and returning the
\* base duration.
SlowQueryBranch_two_durations(fc, u) ==
    LET base_query_duration == Get(fc, "query_duration_ms", 150)
        query_duration == RandInt((base_query_duration * 8) \div 10,
                                  (base_query_duration * 12) \div 10, u)
    IN [NoResult EXCEPT !.kind = "SlowQuery", !.returned = TRUE,
            !.duration_ms = base_query_duration,
            !.logged_ms = query_duration,
            !.slept_ms = query_duration,
            !.base_ms = base_query_duration,
            !.level = "warning",
            !.log_msg = "Slow database query detected"]

\* "Inject slow query"; int(base * 0.8) and int(base * 1.2) are exact for
\* the catalog's base durations.  The deployment fields go into the record
\* of the latency spike only.
SlowQueryBranch(fc, u) ==
    LET base_query_duration == Get(fc, "query_duration_ms", 150)
        query_duration == RandInt((base_query_duration * 8) \div 10,
                                  (base_query_duration * 12) \div 10, u)
        spike == is_latency_spike(query_duration)
        info == deployment_info(fc)
    IN [NoResult EXCEPT !.kind = "SlowQuery", !.returned = TRUE,
            !.duration_ms = query_duration,
            !.logged_ms = query_duration,
            !.slept_ms = query_duration,
            !.base_ms = base_query_duration,
            !.possibly_deployment_related =
                spike /\ info.possibly_deployment_related,
            !.minutes_since_deployment =
                IF spike THEN info.minutes_since_deployment ELSE 0,
            !.level = IF spike THEN "error" ELSE "warning",
            !.latency_spike = spike,
            !.log_msg = IF spike THEN "LATENCY SPIKE - Query took 2000ms+"
                        ELSE "Slow database query detected"]

\* "Inject unhandled exception"
ExceptionBranch ==
    [NoResult EXCEPT !.kind = "UnhandledException", !.raised = "Exception",
            !.level = "error",
            !.log_msg = "Unhandled exception in order processing"]

\* "Normal operation": sleeps additional_latency, adds it to
\* normal_duration, then sleeps normal_duration
NormalBranch(fc, u) ==
    LET base == RandInt(80, 150, u)
        additional_latency == Get(fc, "additional_latency_ms", 0)
        normal_duration == IF additional_latency > 0
                           THEN base + additional_latency ELSE base
    IN [NoResult EXCEPT !.kind = "Success", !.returned = TRUE,
            !.duration_ms = normal_duration,
            !.logged_ms = normal_duration,
            !.slept_ms = (IF additional_latency > 0
                          THEN additional_latency ELSE 0) + normal_duration,
            !.base_ms = base,
            !.additional_ms = additional_latency,
            !.level = "info",
            !.log_msg = "Order processed successfully"]

Outcome(fc, class, u) ==
    CASE class = "Timeout" -> TimeoutBranch(fc, u)
      [] class = "SlowQuery" -> SlowQueryBranch(fc, u)
      [] class = "UnhandledException" -> ExceptionBranch
      [] OTHER -> NormalBranch(fc, u)

simulate_database_query(fc, fault_roll, u) ==
    Outcome(fc, FaultClass(fc, fault_roll), u)

(***************************************************************************)
(* error_injector.py: the thresholds in the declared order, and the        *)
(* injectors of the further outcome classes.                               *)
(***************************************************************************)
error_types ==
    <<"db_timeout_rate", "slow_query_rate", "api_error_rate",
      "validation_error_rate", "memory_error_rate", "external_api_error_rate",
      "exception_rate">>

\* cumulative after the first i error types
RECURSIVE Cumulative(_, _)
Cumulative(fc, i) ==
    IF i = 0 THEN 0 ELSE Cumulative(fc, i - 1) + Get(fc, error_types[i], 0)

\* thresholds[error_type] for every error type
get_cumulative_error_probabilities(fc) ==
    [k \in {error_types[i] : i \in 1..Len(error_types)} |->
        Cumulative(fc, CHOOSE i \in 1..Len(error_types) : error_types[i] = k)]

\* The exception class each injector raises.
InjectorRaises(class) ==
    CASE class = "PaymentApiError"    -> "Exception"
      [] class = "ValidationError"    -> "ValueError"
      [] class = "MemoryError"        -> "MemoryError"
      [] class = "ExternalApiTimeout" -> "TimeoutError"

InjectorClasses ==
    {"PaymentApiError", "ValidationError", "MemoryError", "ExternalApiTimeout"}

\* The outcome class each rate belongs to.
ClassOf(error_type) ==
    CASE error_type = "db_timeout_rate"         -> "Timeout"
      [] error_type = "slow_query_rate"         -> "SlowQuery"
      [] error_type = "api_error_rate"          -> "PaymentApiError"
      [] error_type = "validation_error_rate"   -> "ValidationError"
      [] error_type = "memory_error_rate"       -> "MemoryError"
      [] error_type = "external_api_error_rate" -> "ExternalApiTimeout"
      [] error_type = "exception_rate"          -> "UnhandledException"

\* The first class, in the declared order, whose cumulative threshold
\* exceeds the roll; Success when none does.
DeclaredClass(fc, fault_roll) ==
    LET thresholds == get_cumulative_error_probabilities(fc)
        over == {i \in 1..Len(error_types) : fault_roll < thresholds[error_types[i]]}
    IN IF over = {} THEN "Success"
       ELSE ClassOf(error_types[CHOOSE i \in over : \A j \in over : i <= j])

\* The engine over all the declared classes: the class by the thresholds,
\* then the class's injector, or the branch of simulate_database_query.
evaluate(fc, fault_roll, u) ==
    LET class == DeclaredClass(fc, fault_roll)
    IN IF class \in InjectorClasses
       THEN [NoResult EXCEPT !.kind = class, !.raised = InjectorRaises(class),
                             !.level = "error"]
       ELSE Outcome(fc, class, u)

(***************************************************************************)
(* handler: the Lambda entry point.                                        *)
(***************************************************************************)
\* The events tried: with an order_id, and without one.
Events == {<<"TEST-001">>, <<>>}

\* event.get("order_id", f"ORD-{context.request_id[:8].upper()}") for the
\* request id "test-request-123"
OrderId(event) == IF event = <<>> THEN "ORD-TEST-REQ" ELSE event[1]

NoResponse ==
    [statusCode |-> 0, status |-> "None", error |-> "None", order_id |-> "None",
     propagated |-> "None"]

\* The try/except of handler around the engine call: raised is the class of
\* the exception the call raised, "None" when it returned.
HandlerResponse(order_id, raised) ==
    IF raised = "None"
    THEN [NoResponse EXCEPT !.statusCode = 200, !.status = "completed",
                            !.order_id = order_id]
    ELSE IF Catches("TimeoutError", raised)
    THEN [NoResponse EXCEPT !.statusCode = 504, !.error = "Gateway Timeout",
                            !.order_id = order_id]
    ELSE IF Catches("Exception", raised)
    THEN [NoResponse EXCEPT !.statusCode = 500,
                            !.error = "Internal Server Error",
                            !.order_id = order_id]
    ELSE [NoResponse EXCEPT !.propagated = raised]

NoInputs ==
    [engine |-> "None", scenario |-> "None", fault_roll |-> 0, count |-> 0,
     order_id |-> "None"]

\* The counter file can be read and written.
Working == [read_ok |-> TRUE, wr |-> "ok"]

\* One invocation of handler, from the event to the response.
Handler ==
    \E event \in Events, fault_roll \in Rolls, u \in 0..(NumRand - 1) :
        LET scenario == get_active_scenario(env)
            leak == scenario = "memory_leak"
            g == get_fault_config(FAULT_SCENARIOS, env, count_file,
                                  store_mode.read_ok, store_mode.wr)
            r == IF g.raised = "None"
                 THEN simulate_database_query(g.config, fault_roll, u)
                 ELSE [NoResult EXCEPT !.raised = g.raised]
        IN /\ leak => leak_evals < MaxLeakEvals
           /\ FAULT_SCENARIOS' = g.table
           /\ count_file' = g.file
           /\ fault_config' = g.config
           /\ result' = r
           /\ response' = HandlerResponse(OrderId(event), r.raised)
           /\ last' = [engine |-> "simulate_database_query",
                       scenario |-> scenario, fault_roll |-> fault_roll,
                       count |-> g.count, order_id |-> OrderId(event)]
           /\ leak_evals' = IF leak THEN leak_evals + 1 ELSE leak_evals
           /\ UNCHANGED <<env, store_mode, threads>>

\* The names FAULT_SCENARIO is set to: the catalog's and two others.
ScenarioNames == CatalogNames \cup {"chaos_monkey", ""}

\* The deployment sets FAULT_SCENARIO, or unsets it, between invocations;
\* the locals of the finished invocation are gone.
SetScenario ==
    /\ env' \in ({<<>>} \cup {<<n>> : n \in ScenarioNames}) \ {env}
    /\ fault_config' = << >>
    /\ result' = NoResult
    /\ response' = NoResponse
    /\ last' = NoInputs
    /\ UNCHANGED <<FAULT_SCENARIOS, count_file, store_mode, leak_evals, threads>>

Init ==
    /\ FAULT_SCENARIOS = InitialScenarios
    /\ env = <<>>
    /\ count_file = [exists |-> FALSE, text |-> <<>>]
    /\ fault_config = << >>
    /\ result = NoResult
    /\ response = NoResponse
    /\ store_mode = Working
    /\ last = NoInputs
    /\ leak_evals = 0
    /\ pc = [p \in Procs |-> "idle"]
    /\ local_count = [p \in Procs |-> 0]

Next == Handler \/ SetScenario

Spec == Init /\ [][Next]_vars

(***************************************************************************)
(* The memory_leak scenario on a counter file whose reads and writes may   *)
(* fail.                                                                   *)
(***************************************************************************)
StoreModes == [read_ok : BOOLEAN, wr : WriteModes]

\* /tmp starts or stops failing between invocations.
SetStoreMode ==
    /\ store_mode' \in StoreModes \ {store_mode}
    /\ fault_config' = << >>
    /\ result' = NoResult
    /\ response' = NoResponse
    /\ last' = NoInputs
    /\ UNCHANGED <<FAULT_SCENARIOS, env, count_file, leak_evals, threads>>

InitStore ==
    /\ FAULT_SCENARIOS = InitialScenarios
    /\ env = <<"memory_leak">>
    /\ count_file = [exists |-> FALSE, text |-> <<>>]
    /\ fault_config = << >>
    /\ result = NoResult
    /\ response = NoResponse
    /\ store_mode \in StoreModes
    /\ last = NoInputs
    /\ leak_evals = 0
    /\ pc = [p \in Procs |-> "idle"]
    /\ local_count = [p \in Procs |-> 0]

NextStore == Handler \/ SetStoreMode

SpecStore == InitStore /\ [][NextStore]_vars

(***************************************************************************)
(* The engines on one configuration and one roll: every roll in hundredths,*)
(* the catalog's configurations and the ones with a further rate set.      *)
(***************************************************************************)
\* the rate given to a further outcome class, in hundredths
ExtraRate == 10

ExtraKeys ==
    {"api_error_rate", "validation_error_rate", "memory_error_rate",
     "external_api_error_rate"}

ProbeConfigs ==
    {InitialScenarios[n] : n \in CatalogNames}
    \cup {SetItem(InitialScenarios[n], k, ExtraRate) :
                n \in CatalogNames, k \in ExtraKeys}

InitSelect ==
    /\ FAULT_SCENARIOS = InitialScenarios
    /\ env = <<>>
    /\ count_file = [exists |-> FALSE, text |-> <<>>]
    /\ fault_config \in ProbeConfigs
    /\ result = NoResult
    /\ response = NoResponse
    /\ store_mode = Working
    /\ last = NoInputs
    /\ leak_evals = 0
    /\ pc = [p \in Procs |-> "idle"]
    /\ local_count = [p \in Procs |-> 0]

\* handler's try/except around simulate_database_query on fault_config
Select ==
    \E event \in Events, fault_roll \in 0..99, u \in 0..(NumRand - 1) :
        /\ last = NoInputs
        /\ result' = simulate_database_query(fault_config, fault_roll, u)
        /\ response' = HandlerResponse(OrderId(event), result'.raised)
        /\ last' = [NoInputs EXCEPT !.engine = "simulate_database_query",
                                    !.fault_roll = fault_roll,
                                    !.order_id = OrderId(event)]
        /\ UNCHANGED <<FAULT_SCENARIOS, env, count_file, fault_config,
                       store_mode, leak_evals, threads>>

\* handler's try/except around the engine over all the declared classes
SelectDeclared ==
    \E event \in Events, fault_roll \in 0..99, u \in 0..(NumRand - 1) :
        /\ last = NoInputs
        /\ result' = evaluate(fault_config, fault_roll, u)
        /\ response' = HandlerResponse(OrderId(event), result'.raised)
        /\ last' = [NoInputs EXCEPT !.engine = "evaluate",
                                    !.fault_roll = fault_roll,
                                    !.order_id = OrderId(event)]
        /\ UNCHANGED <<FAULT_SCENARIOS, env, count_file, fault_config,
                       store_mode, leak_evals, threads>>

NextSelect == Select \/ SelectDeclared

SpecSelect == InitSelect /\ [][NextSelect]_vars

(***************************************************************************)
(* The degradation of memory_leak on one invocation count: every count     *)
(* from 0 to MaxCount.                                                     *)
(***************************************************************************)
\* degradation_factor = min(invocation_count / 100, 5.0) and
\* config["additional_latency_ms"] = int(100 * degradation_factor), on the
\* table's own dict
Degrade ==
    \E invocation_count \in 0..MaxCount :
        LET config == SetItem(FAULT_SCENARIOS["memory_leak"],
                              "additional_latency_ms",
                              AdditionalLatencyMs(invocation_count))
        IN /\ last = NoInputs
           /\ fault_config' = config
           /\ FAULT_SCENARIOS' = [FAULT_SCENARIOS EXCEPT !["memory_leak"] = config]
           /\ last' = [NoInputs EXCEPT !.engine = "get_fault_config",
                                       !.scenario = "memory_leak",
                                       !.count = invocation_count]
           /\ UNCHANGED <<env, count_file, result, response, store_mode,
                          leak_evals, threads>>

InitLatency ==
    /\ FAULT_SCENARIOS = InitialScenarios
    /\ env = <<"memory_leak">>
    /\ count_file = [exists |-> FALSE, text |-> <<>>]
    /\ fault_config = << >>
    /\ result = NoResult
    /\ response = NoResponse
    /\ store_mode = Working
    /\ last = NoInputs
    /\ leak_evals = 0
    /\ pc = [p \in Procs |-> "idle"]
    /\ local_count = [p \in Procs |-> 0]

NextLatency == Degrade

SpecLatency == InitLatency /\ [][NextLatency]_vars

(***************************************************************************)
(* Concurrent invocations under memory_leak in one process: one counter    *)
(* file, one FAULT_SCENARIOS.  Each invocation is cut at its accesses to   *)
(* the file and to the table; nothing in the code serialises them.         *)
(***************************************************************************)
\* os.path.exists(count_file); without the file, count = 0 and count += 1
CheckExists(p) ==
    /\ pc[p] = "exists"
    /\ IF count_file.exists
       THEN /\ pc' = [pc EXCEPT ![p] = "read"]
            /\ UNCHANGED local_count
       ELSE /\ pc' = [pc EXCEPT ![p] = "open"]
            /\ local_count' = [local_count EXCEPT ![p] = 1]
    /\ UNCHANGED <<FAULT_SCENARIOS, env, count_file, fault_config, result,
                   response, store_mode, last, leak_evals>>

\* count = int(f.read().strip()), 0 when that raises; count += 1
ReadFile(p) ==
    /\ pc[p] = "read"
    /\ local_count' = [local_count EXCEPT ![p] =
            (IF count_file.exists /\ IsInt(count_file.text)
             THEN ParseInt(count_file.text) ELSE 0) + 1]
    /\ pc' = [pc EXCEPT ![p] = "open"]
    /\ UNCHANGED <<FAULT_SCENARIOS, env, count_file, fault_config, result,
                   response, store_mode, last, leak_evals>>

\* open(count_file, "w") truncates the file
OpenWrite(p) ==
    /\ pc[p] = "open"
    /\ count_file' = [exists |-> TRUE, text |-> <<>>]
    /\ pc' = [pc EXCEPT ![p] = "write"]
    /\ UNCHANGED <<FAULT_SCENARIOS, env, fault_config, result, response,
                   store_mode, last, leak_evals, local_count>>

\* f.write(str(count)), flushed when the with block closes the file
WriteClose(p) ==
    /\ pc[p] = "write"
    /\ count_file' = [exists |-> TRUE, text |-> Str(local_count[p])]
    /\ pc' = [pc EXCEPT ![p] = "assign"]
    /\ UNCHANGED <<FAULT_SCENARIOS, env, fault_config, result, response,
                   store_mode, last, leak_evals, local_count>>

\* config["additional_latency_ms"] = int(100 * degradation_factor), on the
\* table's own dict
AssignLatency(p) ==
    /\ pc[p] = "assign"
    /\ FAULT_SCENARIOS' = [FAULT_SCENARIOS EXCEPT !["memory_leak"] =
            SetItem(@, "additional_latency_ms", AdditionalLatencyMs(local_count[p]))]
    /\ pc' = [pc EXCEPT ![p] = "query"]
    /\ UNCHANGED <<env, count_file, fault_config, result, response,
                   store_mode, last, leak_evals, local_count>>

\* the rest of simulate_database_query, on the dict as it is by now, and
\* handler's response
Query(p) ==
    \E event \in Events, fault_roll \in Rolls, u \in 0..(NumRand - 1) :
        /\ pc[p] = "query"
        /\ fault_config' = FAULT_SCENARIOS["memory_leak"]
        /\ result' = simulate_database_query(fault_config', fault_roll, u)
        /\ response' = HandlerResponse(OrderId(event), result'.raised)
        /\ last' = [engine |-> "simulate_database_query",
                    scenario |-> get_active_scenario(env),
                    fault_roll |-> fault_roll, count |-> local_count[p],
                    order_id |-> OrderId(event)]
        /\ leak_evals' = leak_evals + 1
        /\ pc' = [pc EXCEPT ![p] = "done"]
        /\ UNCHANGED <<FAULT_SCENARIOS, env, count_file, store_mode, local_count>>

InitConc ==
    /\ FAULT_SCENARIOS = InitialScenarios
    /\ env = <<"memory_leak">>
    /\ count_file = [exists |-> FALSE, text |-> <<>>]
    /\ fault_config = << >>
    /\ result = NoResult
    /\ response = NoResponse
    /\ store_mode = Working
    /\ last = NoInputs
    /\ leak_evals = 0
    /\ pc = [p \in Procs |-> "exists"]
    /\ local_count = [p \in Procs |-> 0]

NextConc ==
    \E p \in Procs :
        \/ CheckExists(p)
        \/ ReadFile(p)
        \/ OpenWrite(p)
        \/ WriteClose(p)
        \/ AssignLatency(p)
        \/ Query(p)

SpecConc == InitConc /\ [][NextConc]_vars

(***************************************************************************)
(* Properties.                                                             *)
(***************************************************************************)
CatalogConfigs == {InitialScenarios[n] : n \in CatalogNames}

ChainClasses == {"Timeout", "SlowQuery", "UnhandledException", "Success"}

FailureClasses ==
    {"Timeout", "UnhandledException", "ValidationError", "PaymentApiError",
     "ExternalApiTimeout", "MemoryError"}

\* simulate_database_query has run (in handler) and result is what it did
RanChain == last.engine = "simulate_database_query"

\* C1: for every catalog configuration and every roll,
\* simulate_database_query selects exactly one class by cumulative
\* bucketing: with the running sums t1 <= t2 <= t3 of the timeout,
\* slow-query and exception rates, Timeout iff roll < t1, SlowQuery iff
\* t1 <= roll < t2, UnhandledException iff t2 <= roll < t3 and Success iff
\* roll >= t3; so roll 0 takes the first class with a rate above 0, and the
\* last roll below 1.0 takes Success when the rates sum to less than 1.0.
C1_CumulativeBucketing ==
    (RanChain /\ fault_config \in CatalogConfigs) =>
        LET roll == last.fault_roll
            t1 == fault_config.db_timeout_rate
            t2 == t1 + fault_config.slow_query_rate
            t3 == t2 + fault_config.exception_rate
        IN /\ 0 <= t1 /\ t1 <= t2 /\ t2 <= t3
           /\ result.kind \in ChainClasses
           /\ result.kind = "Timeout" <=> (0 <= roll /\ roll < t1)
           /\ result.kind = "SlowQuery" <=> (t1 <= roll /\ roll < t2)
           /\ result.kind = "UnhandledException" <=> (t2 <= roll /\ roll < t3)
           /\ result.kind = "Success" <=> roll >= t3
           /\ roll = 0 =>
                result.kind = (IF fault_config.db_timeout_rate > 0 THEN "Timeout"
                               ELSE IF fault_config.slow_query_rate > 0 THEN "SlowQuery"
                               ELSE IF fault_config.exception_rate > 0
                               THEN "UnhandledException" ELSE "Success")
           /\ (roll = 99 /\ t3 < 100) => result.kind = "Success"

\* C1 witness: cascading_failure at roll 0.75, between the thresholds 0.70
\* and 0.90, is a slow query.
C1_Witness ==
    /\ RanChain
    /\ fault_config = InitialScenarios["cascading_failure"]
    /\ last.fault_roll = 75
    /\ result.kind = "SlowQuery"

C4_OnlySuccessReturns ==
    last.engine # "None" =>
        /\ result.kind # "Success" => (result.raised # "None" /\ ~result.returned)
        /\ result.kind = "Success" => (result.raised = "None" /\ result.returned)

\* C4, amended: the classes Timeout, UnhandledException, ValidationError,
\* PaymentApiError, ExternalApiTimeout and MemoryError raise and return no
\* value; Success and SlowQuery return a value and raise nothing.
C4_FailuresRaiseSlowQueryReturns ==
    last.engine # "None" =>
        /\ result.kind \in FailureClasses \cup {"Success", "SlowQuery"}
        /\ result.kind \in FailureClasses =>
                (result.raised # "None" /\ ~result.returned)
        /\ result.kind \in {"Success", "SlowQuery"} =>
                (result.raised = "None" /\ result.returned)

\* C4 witness: simulate_database_query has returned a slow query's value.
C4_Witness ==
    /\ RanChain
    /\ result.kind = "SlowQuery"
    /\ result.returned
    /\ result.duration_ms > 0
    /\ response.statusCode = 200

\* the entry of the catalog that get_fault_config resolves a name to
Resolved(scenario) == IF scenario \in CatalogNames THEN scenario ELSE "normal"

\* the sum of the rates of all the outcome classes of a configuration
RateSum(fc) == Cumulative(fc, Len(error_types))

\* C5: get_fault_config never fails; for each of the five known names it
\* returns that name's table entry (db_pool_exhaustion has db_timeout_rate
\* 0.50), and for every other name, and with FAULT_SCENARIO unset, the
\* configuration of "normal".
C5_ResolveNeverFails ==
    RanChain =>
        /\ result.raised # "KeyError"
        /\ fault_config = FAULT_SCENARIOS[Resolved(last.scenario)]
        /\ \A k \in DOMAIN InitialScenarios[Resolved(last.scenario)] :
                fault_config[k] = InitialScenarios[Resolved(last.scenario)][k]
        /\ last.scenario = "db_pool_exhaustion" => fault_config.db_timeout_rate = 50
        /\ last.scenario \notin CatalogNames =>
                fault_config = InitialScenarios["normal"]
        /\ env = <<>> => fault_config = InitialScenarios["normal"]

\* C5 witness: an invocation under a name that is not in the catalog has
\* run on the configuration of "normal".
C5_Witness ==
    /\ RanChain
    /\ env = <<"chaos_monkey">>
    /\ last.scenario = "chaos_monkey"
    /\ fault_config = InitialScenarios["normal"]
    /\ result.kind = "Success"

\* C6: resolving is pure: after any invocations FAULT_SCENARIOS is what it
\* was at the start, and no entry, nor the configuration returned, holds
\* the additional latency.
C6_CatalogUnchanged ==
    /\ FAULT_SCENARIOS = InitialScenarios
    /\ \A n \in DOMAIN FAULT_SCENARIOS :
            "additional_latency_ms" \notin DOMAIN FAULT_SCENARIOS[n]
    /\ RanChain => "additional_latency_ms" \notin DOMAIN fault_config

\* the rolls, of the hundred, on which the chain takes class
Bucket(fc, class) == {r \in 0..99 : FaultClass(fc, r) = class}

\* C7: for every scenario of the catalog the rates of all the outcome
\* classes sum to at most 1.0, so every class keeps its whole rate as its
\* probability and Success has the remainder.
C7_RatesSumToAtMostOne ==
    \A n \in DOMAIN FAULT_SCENARIOS :
        LET fc == FAULT_SCENARIOS[n]
        IN /\ RateSum(fc) <= 100
           /\ Cardinality(Bucket(fc, "Timeout")) = fc.db_timeout_rate
           /\ Cardinality(Bucket(fc, "SlowQuery")) = fc.slow_query_rate
           /\ Cardinality(Bucket(fc, "UnhandledException")) = fc.exception_rate
           /\ Cardinality(Bucket(fc, "Success")) = 100 - RateSum(fc)

\* C7 witness: under cascading_failure, whose rates sum to exactly 1.0, a
\* roll of 0.90 has taken the last class, the unhandled exception.
C7_Witness ==
    /\ RanChain
    /\ last.scenario = "cascading_failure"
    /\ RateSum(fault_config) = 100
    /\ last.fault_roll = 90
    /\ result.kind = "UnhandledException"

\* the count the counter file holds, 0 without the file
Stored == IF count_file.exists /\ IsInt(count_file.text)
          THEN ParseInt(count_file.text) ELSE 0

\* C8: in a sequential run on a working counter file, every memory_leak
\* invocation adds exactly one to the counter, whatever its outcome, and
\* every other invocation leaves it as it is: from no file, after n
\* memory_leak invocations the file holds n, and the n-th one got n.
C8_OneIncrementPerLeakEvaluation ==
    store_mode = Working =>
        /\ leak_evals = 0 => ~count_file.exists
        /\ leak_evals > 0 => (count_file.exists /\ count_file.text = Str(leak_evals))
        /\ Stored = leak_evals
        /\ (RanChain /\ last.scenario = "memory_leak") => last.count = leak_evals
        /\ (RanChain /\ last.scenario # "memory_leak") => last.count = 0

\* C8 witness: the third memory_leak invocation has ended in a timeout, got
\* the count 3 and left 3 in the file.
C8_Witness ==
    /\ RanChain
    /\ last.scenario = "memory_leak"
    /\ result.kind = "Timeout"
    /\ leak_evals = 3
    /\ last.count = 3
    /\ count_file = [exists |-> TRUE, text |-> <<3>>]

\* C9: when the memory_leak invocations run concurrently on one counter
\* file, the file ends at the initial count plus their number, and no two
\* of them get the same count.
C9_NoLostUpdate ==
    (\A p \in Procs : pc[p] = "done") =>
        /\ Stored = NumProcs
        /\ \A p, q \in Procs : p # q => local_count[p] # local_count[q]

\* C10 as claimed: when reads or writes of the counter file fail, the
\* invocation still ends with an outcome, the count used is 0 and the
\* additional latency is 0 ms.
C10_FailedStoreCountsZero ==
    (RanChain /\ store_mode # Working) =>
        /\ result.kind \in ChainClasses
        /\ last.count = 0
        /\ fault_config.additional_latency_ms = 0

\* C10, amended: when reads or writes of the counter file fail, the
\* invocation still ends with an outcome and a response; a failed read
\* makes the stored count count as 0, so that the count used is 1 and the
\* additional latency 1 ms; when only the write fails, the count used is
\* the stored count plus one (the file is left as it was when open() fails).
C10_FailedStoreStillCounts ==
    /\ [](  (RanChain /\ store_mode # Working) =>
                /\ result.kind \in ChainClasses
                /\ response.statusCode \in {200, 500, 504}
                /\ response.propagated = "None"
                /\ last.count >= 1
                /\ fault_config.additional_latency_ms = AdditionalLatencyMs(last.count)
                /\ ~store_mode.read_ok =>
                        (last.count = 1 /\ fault_config.additional_latency_ms = 1))
    /\ [][(RanChain' /\ store_mode.read_ok /\ store_mode.wr # "ok") =>
                last'.count = Stored + 1]_vars

\* C10 witness: with 2 in the file, an invocation whose write failed at
\* open() has used the count 3 and succeeded, 3 ms slower.
C10_Witness ==
    /\ RanChain
    /\ store_mode = [read_ok |-> TRUE, wr |-> "open_fails"]
    /\ count_file = [exists |-> TRUE, text |-> <<2>>]
    /\ last.count = 3
    /\ result.kind = "Success"
    /\ result.additional_ms = 3

\* the latency has been computed for the count last.count
Degraded == last.engine = "get_fault_config"

\* C11: the additional latency int(100 * min(count / 100, 5.0)) of
\* memory_leak is a non-decreasing function of the invocation count, is 0
\* at count 0, is 500 ms at every count from 500 on, and is never above
\* 500 ms.
C11_LatencyMonotoneAndCapped ==
    Degraded =>
        LET latency == fault_config.additional_latency_ms
        IN /\ latency \in 0..500
           /\ last.count = 0 => latency = 0
           /\ last.count >= 500 => latency = 500
           /\ \A c \in 0..last.count : AdditionalLatencyMs(c) <= latency
           /\ \A c \in last.count..MaxCount : latency <= AdditionalLatencyMs(c)

\* C11 witness: the latency has been computed for a count above 500 and is
\* 500 ms, above the latency of count 499.
C11_Witness ==
    /\ Degraded
    /\ last.count = 537
    /\ fault_config.additional_latency_ms = 500
    /\ AdditionalLatencyMs(499) < 500

\* C12: every Timeout outcome reports pool_available = db_pool_size -
\* concurrent_calls exactly, negative when over-subscribed (3 - 5 = -2 under
\* db_pool_exhaustion); its reported wait time is the scenario's timeout
\* threshold when concurrent_calls > db_pool_size, and otherwise the drawn
\* query duration, which lies in 4500..5500 ms.
C12_TimeoutReportsPoolAndWait ==
    (RanChain /\ result.kind = "Timeout") =>
        LET pool == fault_config.db_pool_size
            calls == fault_config.concurrent_calls
        IN /\ result.pool_available = pool - calls
           /\ result.logged_ms \in 4500..5500
           /\ calls > pool => result.wait_time_ms = fault_config.timeout_ms
           /\ calls <= pool => result.wait_time_ms = result.logged_ms
           /\ last.scenario = "db_pool_exhaustion" => result.pool_available = -2

\* C12 witness: a timeout under db_pool_exhaustion has reported -2
\* connections available and the threshold of 5000 ms as its wait, having
\* drawn 4500 ms.
C12_Witness ==
    /\ RanChain
    /\ last.scenario = "db_pool_exhaustion"
    /\ result.kind = "Timeout"
    /\ result.pool_available = -2
    /\ result.logged_ms = 4500
    /\ result.wait_time_ms = 5000

\* C13: for every Success outcome the time slept equals the reported
\* duration_ms, and both are the base duration drawn in 80..150 ms plus the
\* additional latency exactly once, the additional latency being 0 outside
\* memory_leak.
C13_SleptIsReported ==
    (RanChain /\ result.kind = "Success") =>
        /\ result.base_ms \in 80..150
        /\ last.scenario # "memory_leak" => result.additional_ms = 0
        /\ result.duration_ms = result.base_ms + result.additional_ms
        /\ result.slept_ms = result.duration_ms

\* C14: a Timeout outcome carries the deployment-correlation fields, with
\* minutes_since_deployment the configured offset, if and only if the
\* resolved configuration has a deployment offset; among the scenarios
\* that is exactly deployment_config_bug, with 15 minutes.
C14_DeploymentFieldsIffOffset ==
    (RanChain /\ result.kind = "Timeout") =>
        LET has_offset == "deployment_time_offset_mins" \in DOMAIN fault_config
        IN /\ result.possibly_deployment_related <=> has_offset
           /\ has_offset =>
                result.minutes_since_deployment =
                    fault_config.deployment_time_offset_mins
           /\ has_offset <=> last.scenario = "deployment_config_bug"
           /\ last.scenario = "deployment_config_bug" =>
                result.minutes_since_deployment = 15

\* C14 witness: a timeout under deployment_config_bug has carried the
\* fields, 15 minutes after the deployment.
C14_Witness ==
    /\ RanChain
    /\ last.scenario = "deployment_config_bug"
    /\ result.kind = "Timeout"
    /\ result.possibly_deployment_related
    /\ result.minutes_since_deployment = 15

\* C15: for every SlowQuery outcome one duration is used end to end: the
\* duration drawn lies between int(0.8 * base) and int(1.2 * base) of the
\* scenario's base query duration (400..600 ms under cascading_failure),
\* and the duration slept, the one logged and the one returned to the
\* caller are that value.
C15_OneSlowQueryDuration ==
    (RanChain /\ result.kind = "SlowQuery") =>
        LET base == fault_config.query_duration_ms
        IN /\ result.duration_ms >= (base * 8) \div 10
           /\ result.duration_ms <= (base * 12) \div 10
           /\ result.slept_ms = result.duration_ms
           /\ result.logged_ms = result.duration_ms
           /\ last.scenario = "cascading_failure" =>
                result.duration_ms \in 400..600

\* C15 witness: a slow query under cascading_failure has slept, logged and
\* returned 600 ms.
C15_Witness ==
    /\ RanChain
    /\ last.scenario = "cascading_failure"
    /\ result.kind = "SlowQuery"
    /\ result.duration_ms = 600
    /\ result.slept_ms = 600
    /\ result.logged_ms = 600
    /\ response.statusCode = 200

\* C16: a SlowQuery outcome is reported as the latency spike (severity
\* error, message "LATENCY SPIKE ...") if and only if its duration is at
\* least 2000 ms, and as the slow-query warning otherwise; so among the
\* scenarios a latency spike occurs only under deployment_config_bug.
C16_SpikeIffAtLeast2000 ==
    (RanChain /\ result.kind = "SlowQuery") =>
        /\ result.latency_spike <=> result.duration_ms >= 2000
        /\ result.latency_spike =>
                /\ result.level = "error"
                /\ result.log_msg = "LATENCY SPIKE - Query took 2000ms+"
        /\ ~result.latency_spike =>
                /\ result.level = "warning"
                /\ result.log_msg = "Slow database query detected"
        /\ result.latency_spike => last.scenario = "deployment_config_bug"

\* C16 witness: a slow query of exactly 2000 ms under deployment_config_bug
\* has been reported as a latency spike.
C16_Witness ==
    /\ RanChain
    /\ last.scenario = "deployment_config_bug"
    /\ result.kind = "SlowQuery"
    /\ result.duration_ms = 2000
    /\ result.latency_spike
    /\ result.level = "error"

\* C17: the degradation of memory_leak never reaches another scenario:
\* whatever names the active scenario has switched between (memory_leak and
\* unknown names among them), every Success outcome under a scenario other
\* than memory_leak has the additional latency 0 and a reported duration in
\* 80..150 ms.
C17_LeakStaysInMemoryLeak ==
    (RanChain /\ last.scenario # "memory_leak" /\ result.kind = "Success") =>
        /\ "additional_latency_ms" \notin DOMAIN fault_config
        /\ result.additional_ms = 0
        /\ result.duration_ms \in 80..150

\* C17 witness: after memory_leak invocations have left a latency in
\* their entry of the table, an invocation under an unknown name has
\* succeeded with no additional latency.
C17_Witness ==
    /\ RanChain
    /\ leak_evals >= 2
    /\ FAULT_SCENARIOS["memory_leak"].additional_latency_ms = 2
    /\ last.scenario = "chaos_monkey"
    /\ result.kind = "Success"
    /\ result.additional_ms = 0
    /\ result.duration_ms = 150

====
